---- MODULE Spec2Model ----
(***************************************************************************)
(* Model of scripts/get-fonts.py: the font loader that, for every source   *)
(* of its configuration, downloads the font through Downloader.download    *)
(* (conditional fetch against a two-file cache in fonts_dir), converts it   *)
(* with the glyph-building tool and optionally deletes the cache.          *)
(*                                                                         *)
(* One run of main() is StartRun, then for each source in configuration    *)
(* order a Download step (main lines 157-161, Downloader.download) and a   *)
(* Convert step (main lines 163-189).  An uncaught exception ends the run  *)
(* (pc = "aborted"), EndRun is the process's exit.  Between two runs the   *)
(* world may change: a source is modified (ModifySource) and the wall      *)
(* clock advances (Tick).                                                  *)
(***************************************************************************)
EXTENDS Integers, Sequences, FiniteSets, TLC

\* ------------------------------------------------------------------ bounds
\* The wall clock (and so every modification time) runs over 0..MaxTime.
MaxTime == 2

\* --------------------------------------------------------- program constants
\* requests.codes.ok and requests.codes.not_modified
codes_ok == 200
codes_not_modified == 304

\* Statuses that raise_for_status lets pass and download does not expect.
OtherStatuses == {204}

\* ------------------------------------------------------------------ values
\* Every string the program handles is a record [kind, v, of]: the kind is
\* the format of the string, so two strings of different formats are never
\* equal.
\*   "data"   font bytes: the content of the source "of" as modified at time v
\*   "mtime"  str(os.path.getmtime(f))         (v: the modification time)
\*   "http"   a Last-Modified header, an HTTP-date
\*   "now"    datetime.now().strftime("%Y-%m-%d %H:%M:%S")
\*   "none"   Python's None;   "absent": no such file
NoneVal == [kind |-> "none", v |-> 0, of |-> ""]
Absent == [kind |-> "absent", v |-> 0, of |-> ""]
Bytes(url, t) == [kind |-> "data", v |-> t, of |-> url.id]
NoBytes == [kind |-> "data", v |-> 0, of |-> ""]
\* str(mtime) of a file modified at time t
StrMtime(t) == [kind |-> "mtime", v |-> t, of |-> ""]
\* the Last-Modified header of a resource modified at time t
HttpDate(t) == [kind |-> "http", v |-> t, of |-> ""]
\* datetime.now().strftime("%Y-%m-%d %H:%M:%S") at wall-clock time t
Strftime(t) == [kind |-> "now", v |-> t, of |-> ""]

\* A path below fonts_dir is <<stem, k>>: the name stem followed by k
\* suffixes ".lastmod".
Stems == {"a", "b"}
Paths == Stems \X (0..2)

\* filename + '.lastmod'
LastmodPath(filename) == <<filename[1], filename[2] + 1>>

\* A URL is its scheme and the basename of its path; id tells two URLs of
\* equal basename apart.
Url(id, scheme, stem, k) == [id |-> id, scheme |-> scheme, base |-> <<stem, k>>]
FileA == Url("file:///srv/a", "file", "a", 0)
HttpA == Url("http://h/a", "http", "a", 0)
HttpB == Url("http://h/b", "http", "b", 0)
HttpALastmod == Url("http://h/a.lastmod", "http", "a", 1)
Urls == {FileA, HttpA, HttpB, HttpALastmod}

\* os.path.join(fonts_dir, os.path.basename(urlparse(url).path))
Filename(url) == url.base

Source(name, url, archive) == [name |-> name, url |-> url, archive |-> archive]

\* The configurations (config["sources"], an ordered mapping) the model runs:
\* a local and a remote source, the second one an archive; two URLs of equal
\* basename; a URL whose basename is another one's followed by ".lastmod".
Configs ==
  { << Source("n1", FileA, FALSE), Source("n2", HttpB, TRUE) >>,
    << Source("n1", HttpA, FALSE), Source("n2", FileA, FALSE) >>,
    << Source("n1", HttpA, FALSE), Source("n2", HttpALastmod, FALSE) >> }

VARIABLES
  sources,   \* config["sources"] of this installation
  src,       \* the world: for every URL the time of its last modification
  now,       \* the wall clock
  fs,        \* fonts_dir: path -> file content or Absent
  argv,      \* the flags as given on the command line
  opts,      \* opts after main's lines 143-145
  pc,        \* "idle", "download", "convert", "done", "aborted"
  idx,       \* position in config["sources"]
  download,  \* main's variable download: what d.download returned
  cur,       \* what happened so far to the source at idx in this run
  last       \* per source, its history since its last fetch (see Touch)

vars == <<sources, src, now, fs, argv, opts, pc, idx, download, cur, last>>

\* ------------------------------------------------------------ DownloadResult
DownloadResult(status_code, content, last_modified) ==
  [isNone |-> FALSE, raised |-> FALSE, status_code |-> status_code,
   content |-> content, last_modified |-> last_modified]
\* Python's None as the value of a DownloadResult variable
NoneResult ==
  [isNone |-> TRUE, raised |-> FALSE, status_code |-> 0,
   content |-> NoneVal, last_modified |-> NoneVal]
\* the call did not return: an exception left it
Raised ==
  [isNone |-> TRUE, raised |-> TRUE, status_code |-> 0,
   content |-> NoneVal, last_modified |-> NoneVal]

\* ------------------------------------------------------------------ headers
\* The headers dict handed to _download: {} or {'If-Modified-Since': x}.
EmptyHeaders == [has |-> FALSE, ims |-> NoneVal]
IfModifiedSince(x) == [has |-> TRUE, ims |-> x]

\* The conditional token that reaches the transport: requests drops a header
\* whose value is None, and the file branch compares against None in vain.
ConditionalToken(headers) == IF headers.has THEN headers.ims ELSE NoneVal

\* What the transport may do with one request.
\*   "respond"       the source is there and answers (200 or 304)
\*   "other_status"  an HTTP status that is no error and neither 200 nor 304
\*   "http_error"    a 4xx/5xx status: raise_for_status raises HTTPError
\*   "conn_error"    session.get raises ConnectionError
\*   "missing"       the local file is not there: getmtime/open raise
NetOutcomes(url) ==
  IF url.scheme = "file" THEN {"respond", "missing"}
  ELSE {"respond", "other_status", "http_error", "conn_error"}

\* The remote server's answer to a GET: 304 only for a conditional request
\* whose If-Modified-Since is an HTTP-date not older than the resource; a
\* value that is no HTTP-date is ignored (RFC 7232, 3.3).
ServerStatus(token, time) ==
  IF token.kind = "http" /\ token.v >= time THEN codes_not_modified ELSE codes_ok

\* Downloader._download(url, headers), with the transport's behaviour net.
Downloader_download(url, headers, net) ==
  IF url.scheme = "file" THEN
    IF net = "missing" THEN Raised
    ELSE IF headers.has /\ StrMtime(src[url]) = headers.ims
      THEN DownloadResult(codes_not_modified, NoneVal, NoneVal)
      ELSE DownloadResult(codes_ok, Bytes(url, src[url]), StrMtime(src[url]))
  ELSE
    IF net \in {"conn_error", "http_error"} THEN Raised
    ELSE IF net = "other_status"
      THEN DownloadResult(CHOOSE s \in OtherStatuses : TRUE, NoBytes, NoneVal)
      ELSE IF ServerStatus(ConditionalToken(headers), src[url]) = codes_not_modified
        THEN DownloadResult(codes_not_modified, NoBytes, HttpDate(src[url]))
        ELSE DownloadResult(codes_ok, Bytes(url, src[url]), HttpDate(src[url]))

\* ------------------------------------------------------ Downloader.download
\* (mutant) either file is enough for a cache entry
CacheExists_Either(filename, filename_lastmod) ==
  fs[filename] # Absent \/ fs[filename_lastmod] # Absent

\* line 59: os.path.exists(filename) and os.path.exists(filename_lastmod)
CacheExists(filename, filename_lastmod) ==
  fs[filename] # Absent /\ fs[filename_lastmod] # Absent

\* (mutant) the cache is consulted only when there is none
UseCache_Inverted(o, cached) == o.no_update /\ ~cached

\* line 73: opts.no_update and (cached_data)
UseCache(o, cached) == o.no_update /\ cached

\* (mutant) the conditional header is sent under force too
RequestHeaders_Conditional(o, lastmod_cache) == IfModifiedSince(lastmod_cache)

\* lines 77-81: the headers of the request
RequestHeaders(o, lastmod_cache) ==
  IF o.force THEN EmptyHeaders ELSE IfModifiedSince(lastmod_cache)

\* line 92: what download writes to filename_lastmod after response
TokenWritten(response, t) == Strftime(t)

\* (mutant) the response is written before its status is looked at
WriteCache_AnyStatus(f, response, filename, filename_lastmod, t) ==
  [f EXCEPT ![filename] = response.content,
            ![filename_lastmod] = TokenWritten(response, t)]

\* lines 85-92: download itself writes the content file and the token file
\* when the status is 200, and nothing otherwise
WriteCache(f, response, filename, filename_lastmod, t) ==
  IF response.status_code = codes_ok
    THEN [f EXCEPT ![filename] = response.content,
                   ![filename_lastmod] = TokenWritten(response, t)]
    ELSE f

NoFlags == [force |-> FALSE, no_update |-> FALSE, delete_cache |-> FALSE]

\* What the run remembers of the source it is at.
Pending ==
  [outcome |-> "pending",   \* "cached", "fresh", "unchanged", "fatal", "raised"
   hadContent |-> FALSE,    \* the content file existed before the fetch
   hadToken |-> FALSE,      \* the token file existed before the fetch
   loaded |-> FALSE,        \* cached_data is not None
   hist |-> "none",         \* last[idx] before the fetch
   sent |-> FALSE,          \* a transport call was made
   token |-> NoneVal,       \* the conditional token it carried
   net |-> "",              \* what the transport did
   got |-> NoneVal,         \* the freshness token the transport returned
   data |-> NoneVal,        \* the bytes the transport returned
   wrote |-> FALSE,         \* download wrote the content and the token file
   critical |-> FALSE,      \* logging.critical was called
   notreq |-> FALSE,        \* "did not require updating" was logged
   conv |-> "pending",      \* "skipped", "done", "failed"
   cleared |-> FALSE,       \* the working directory was cleared
   tool |-> FALSE,          \* the glyph-building tool was invoked
   exit |-> "",             \* its exit: "ok" (zero), "fail" (non-zero)
   extract |-> FALSE,       \* archive extraction was attempted
   deleted |-> FALSE]       \* "Cache deleted" was logged

\* The files of the cache entry of source i.
CacheFiles(i) == {Filename(sources[i].url), LastmodPath(Filename(sources[i].url))}

\* last[i] tells what is known of source i's cache entry:
\*   "cur"   this run fetched i (fresh or unchanged) with default flags,
\*           and has not failed converting it
\*   "prev"  the previous run did, and neither the source nor the files of
\*           its cache entry have changed since
\*   "mod"   as "prev", but the source was modified after that fetch
\*   "none"  otherwise
\* Touch is last[i] after the files in written were written or removed.
Touch(i, written) == IF CacheFiles(i) \cap written = {} THEN last[i] ELSE "none"

\* main lines 157-161 with Downloader.download, lines 58-101
Download(net) ==
  /\ pc = "download"
  /\ net \in NetOutcomes(sources[idx].url)
  /\ LET url == sources[idx].url
         filename == Filename(url)
         filename_lastmod == LastmodPath(filename)
         cached == CacheExists(filename, filename_lastmod)
         lastmod_cache == IF cached THEN fs[filename_lastmod] ELSE NoneVal
         cached_data == IF cached
                          THEN DownloadResult(codes_ok, fs[filename], lastmod_cache)
                          ELSE NoneResult
         skip == UseCache(opts, cached)
         headers == RequestHeaders(opts, lastmod_cache)
         response == Downloader_download(url, headers, net)
         ok == ~skip /\ ~response.raised /\ response.status_code = codes_ok
         notmod == ~skip /\ ~response.raised /\ response.status_code = codes_not_modified
         result == IF skip THEN cached_data
                   ELSE IF response.raised THEN Raised
                   ELSE IF ok THEN response
                   ELSE IF notmod THEN cached_data
                   ELSE NoneResult
         rec == [Pending EXCEPT
                   !.outcome = IF skip THEN "cached"
                               ELSE IF response.raised THEN "raised"
                               ELSE IF ok THEN "fresh"
                               ELSE IF notmod THEN "unchanged"
                               ELSE "fatal",
                   !.hadContent = fs[filename] # Absent,
                   !.hadToken = fs[filename_lastmod] # Absent,
                   !.loaded = ~cached_data.isNone,
                   !.hist = last[idx],
                   !.sent = ~skip,
                   !.token = IF skip THEN NoneVal ELSE ConditionalToken(headers),
                   !.net = IF skip THEN "" ELSE net,
                   !.got = IF ok THEN response.last_modified ELSE NoneVal,
                   !.data = IF ok THEN response.content ELSE NoneVal,
                   !.wrote = ok,
                   !.critical = ~skip /\ ~response.raised /\ ~ok /\ ~notmod]
     IN  /\ fs' = IF skip \/ response.raised
                    THEN fs
                    ELSE WriteCache(fs, response, filename, filename_lastmod, now)
         /\ download' = result
         /\ cur' = rec
         /\ last' = [i \in DOMAIN last |->
                       IF i = idx
                         THEN IF argv = NoFlags /\ (ok \/ notmod) THEN "cur" ELSE "none"
                         ELSE IF ok THEN Touch(i, {filename, filename_lastmod})
                         ELSE last[i]]
         /\ pc' = IF result.raised THEN "aborted" ELSE "convert"
  /\ UNCHANGED <<sources, src, now, argv, opts, idx>>

\* ------------------------------------------------------------------- main
\* (mutant) lines 143-145 left out: no_update stays as given
ParseArgs_NoOverride(force, no_update, delete_cache) ==
  [force |-> force, no_update |-> no_update, delete_cache |-> delete_cache]

\* lines 143-145: force overrides no_update
ParseArgs(force, no_update, delete_cache) ==
  [force |-> force,
   no_update |-> IF force /\ no_update THEN FALSE ELSE no_update,
   delete_cache |-> delete_cache]

\* line 164: download == None and (not opts.force)
NoConvert(d, o) == d.isNone /\ ~o.force

\* (mutant) subprocess.run without check=True: the exit status is ignored
ToolRaises_Unchecked(tool) == FALSE

\* line 173: subprocess.run(command, check=True) raises CalledProcessError
\* when the tool exits non-zero
ToolRaises(tool) == tool = "fail"

\* lines 183-189: os.remove(filename); os.remove(filename_lastmod), where the
\* first FileNotFoundError ends the try block
DeleteCache(f, filename, filename_lastmod) ==
  IF f[filename] = Absent THEN f
  ELSE [f EXCEPT ![filename] = Absent, ![filename_lastmod] = Absent]

\* both files were there, so that "Cache deleted" is logged (line 187)
CacheDeleted(f, filename, filename_lastmod) ==
  f[filename] # Absent /\ f[filename_lastmod] # Absent

\* lines 156 and on: the next source, or the end of the loop
NextPc == IF idx < Len(sources) THEN "download" ELSE "done"
NextIdx == IF idx < Len(sources) THEN idx + 1 ELSE idx

\* lines 134-154: a run starts with the flags of its command line
StartRun(force, no_update, delete_cache) ==
  /\ pc = "idle"
  /\ argv' = [force |-> force, no_update |-> no_update, delete_cache |-> delete_cache]
  /\ opts' = ParseArgs(force, no_update, delete_cache)
  /\ idx' = 1
  /\ pc' = "download"
  /\ UNCHANGED <<sources, src, now, fs, download, cur, last>>

\* main lines 163-189 for the source at idx; tool is the glyph-building
\* tool's exit ("ok", "fail"), zip what zipfile makes of the content
Convert(tool, zip) ==
  /\ pc = "convert"
  /\ LET source == sources[idx]
         filename == Filename(source.url)
         filename_lastmod == LastmodPath(filename)
         skip == NoConvert(download, opts)
         toolFailed == ~skip /\ ToolRaises(tool)
         extract == ~skip /\ ~toolFailed /\ source.archive
         \* download.content of None raises AttributeError
         zipFailed == extract /\ (download.isNone \/ zip = "bad")
         complete == ~skip /\ ~toolFailed /\ ~zipFailed
         delete == complete /\ opts.delete_cache
     IN  /\ cur' = [cur EXCEPT !.notreq = skip,
                               !.conv = IF skip THEN "skipped"
                                        ELSE IF complete THEN "done" ELSE "failed",
                               !.cleared = ~skip,
                               !.tool = ~skip,
                               !.exit = IF skip THEN "" ELSE tool,
                               !.extract = extract,
                               !.deleted = delete /\ CacheDeleted(fs, filename, filename_lastmod)]
         /\ fs' = IF delete THEN DeleteCache(fs, filename, filename_lastmod) ELSE fs
         /\ pc' = IF toolFailed \/ zipFailed THEN "aborted" ELSE NextPc
         /\ idx' = IF toolFailed \/ zipFailed THEN idx ELSE NextIdx
         /\ last' = [i \in DOMAIN last |->
                       IF i = idx /\ (toolFailed \/ zipFailed) THEN "none"
                       ELSE IF delete THEN Touch(i, {filename, filename_lastmod})
                       ELSE last[i]]
  /\ UNCHANGED <<sources, src, now, argv, opts, download>>

\* The process exits, after the loop or by an uncaught exception.
EndRun ==
  /\ pc \in {"done", "aborted"}
  /\ pc' = "idle"
  /\ idx' = 1
  /\ download' = NoneResult
  /\ cur' = Pending
  /\ argv' = NoFlags
  /\ opts' = NoFlags
  /\ last' = [i \in DOMAIN last |-> IF last[i] = "cur" THEN "prev" ELSE "none"]
  /\ UNCHANGED <<sources, src, now, fs>>

\* ------------------------------------------------------------- the world
\* The font behind url is replaced: its modification time becomes now.
ModifySource(url) ==
  /\ pc = "idle"
  /\ \E i \in DOMAIN sources : sources[i].url = url
  /\ src[url] < now
  /\ src' = [src EXCEPT ![url] = now]
  /\ last' = [i \in DOMAIN last |->
                IF sources[i].url = url
                  THEN IF last[i] \in {"prev", "mod"} THEN "mod" ELSE "none"
                  ELSE last[i]]
  /\ UNCHANGED <<sources, now, fs, argv, opts, pc, idx, download, cur>>

Tick ==
  /\ pc = "idle"
  /\ now < MaxTime
  /\ now' = now + 1
  /\ UNCHANGED <<sources, src, fs, argv, opts, pc, idx, download, cur, last>>

\* ------------------------------------------------------------------ Init
\* A fresh installation: fonts_dir is empty, nothing has run.
Init ==
  /\ sources \in Configs
  /\ src = [u \in Urls |-> 0]
  /\ now = 0
  /\ fs = [p \in Paths |-> Absent]
  /\ argv = NoFlags
  /\ opts = NoFlags
  /\ pc = "idle"
  /\ idx = 1
  /\ download = NoneResult
  /\ cur = Pending
  /\ last = [i \in DOMAIN sources |-> "none"]

Next ==
  \/ \E f \in BOOLEAN, nu \in BOOLEAN, dc \in BOOLEAN : StartRun(f, nu, dc)
  \/ \E net \in {"respond", "other_status", "http_error", "conn_error", "missing"} :
       Download(net)
  \/ \E tool \in {"ok", "fail"}, zip \in {"ok", "bad"} : Convert(tool, zip)
  \/ EndRun
  \/ \E u \in Urls : ModifySource(u)
  \/ Tick

Spec == Init /\ [][Next]_vars

\* ------------------------------------------------------------------ claims
\* The source the run is at, and the two files of its cache entry.
CurUrl == sources[idx].url
CurFile == Filename(CurUrl)
CurLastmod == LastmodPath(CurFile)
Downloaded == cur.outcome # "pending"

\* C1 (as claimed): a source fetched by two consecutive runs with default
\* flags, not modified in between, is "unchanged" in the second run, which
\* writes neither the content file nor the token file.
C1_SecondRunUnchanged ==
  (Downloaded /\ cur.hist = "prev" /\ argv = NoFlags /\ cur.net = "respond")
    => (cur.outcome = "unchanged" /\ ~cur.wrote)

\* C2 (as claimed): after a "fresh" fetch the content file holds the fetched
\* bytes and the token file holds the freshness token the transport returned.
C2_TokenFileHoldsTransportToken ==
  (pc = "convert" /\ cur.outcome = "fresh")
    => (fs[CurFile] = cur.data /\ fs[CurLastmod] = cur.got)

\* C3 (as claimed): the conversion step runs for a source only if new
\* content was fetched for it in this run or force is set; after a
\* not-modified outcome or a skip-network cache hit without force it is
\* skipped and "did not require updating" is logged.
C3_ConvertOnlyIfFreshOrForce ==
  /\ (cur.cleared \/ cur.tool) => (cur.outcome = "fresh" \/ opts.force)
  /\ (cur.conv # "pending" /\ cur.outcome \in {"unchanged", "cached"} /\ ~opts.force)
       => (cur.conv = "skipped" /\ cur.notreq)

\* C4 (as claimed): when the transport fails for a source (connection
\* failure, HTTP status other than 200/304) the run logs a critical message,
\* does not raise and goes on to the remaining sources.
C4_TransportFailureIsLoggedAndSkipped ==
  (Downloaded /\ cur.net \in {"conn_error", "http_error", "other_status"})
    => (cur.critical /\ cur.outcome = "fatal" /\ pc # "aborted")

\* C5 (as claimed): under every combination of flags, after a fatal fetch
\* condition (download returned None) the conversion step is not executed
\* for the source and the run continues with the next source.
C5_NoConvertAfterFatalFetch ==
  (cur.outcome = "fatal" /\ cur.conv # "pending")
    => (cur.conv = "skipped" /\ ~cur.cleared /\ ~cur.tool /\ ~cur.extract
        /\ pc # "aborted")

\* C6: with the force flag set, every fetch issues a transport request, the
\* request carries no conditional token, and a source that answers yields
\* "fresh", also when a cache entry that is still current exists.
C6_ForceFetchesUnconditionally ==
  (Downloaded /\ argv.force)
    => /\ cur.sent
       /\ cur.token = NoneVal
       /\ cur.net = "respond" => cur.outcome = "fresh"
C6_Witness ==
  /\ argv.force /\ cur.loaded /\ cur.hist = "prev"
  /\ cur.sent /\ cur.outcome = "fresh"

\* C7 (as claimed): with the skip-network flag set and a cache entry present,
\* no transport call is made and the cached entry is returned.
C7_NoUpdateNeverCallsTransport ==
  (pc = "convert" /\ argv.no_update /\ cur.hadContent /\ cur.hadToken)
    => (~cur.sent /\ cur.outcome = "cached")

\* C7 (amended): with the skip-network flag set, the force flag not set and
\* a cache entry present, no transport call is made and download returns the
\* cached entry: the content file's bytes with the token file's token.
C7_NoUpdateWithoutForce ==
  (pc = "convert" /\ argv.no_update /\ ~argv.force /\ cur.hadContent /\ cur.hadToken)
    => /\ ~cur.sent /\ cur.outcome = "cached"
       /\ ~download.isNone
       /\ download.content = fs[CurFile]
       /\ download.last_modified = fs[CurLastmod]
C7_Witness ==
  /\ pc = "convert" /\ argv.no_update /\ ~argv.force
  /\ cur.hadContent /\ cur.hadToken /\ ~cur.sent /\ ~download.isNone

\* C8 (as claimed): a local-file source with a cache entry of an earlier
\* run, modified between the runs, is "fresh" in the second run (default
\* flags), after which the token file holds the file's new modification time.
C8_LocalTokenIsNewMtime ==
  (pc = "convert" /\ CurUrl.scheme = "file" /\ cur.hist = "mod" /\ cur.loaded
     /\ argv = NoFlags /\ cur.net = "respond")
    => (cur.outcome = "fresh" /\ fs[CurLastmod] = StrMtime(src[CurUrl]))

\* C9: download loads a cache entry exactly when the content file and the
\* token file both exist before the fetch; otherwise the source is uncached:
\* the transport is called, also under skip-network, with no conditional
\* token, and the fetch is not "unchanged".
C9_CacheNeedsBothFiles ==
  Downloaded
    => /\ cur.loaded <=> (cur.hadContent /\ cur.hadToken)
       /\ ~(cur.hadContent /\ cur.hadToken)
            => (cur.sent /\ cur.token = NoneVal /\ cur.outcome \notin {"unchanged", "cached"})
C9_Witness ==
  /\ Downloaded /\ cur.hadContent # cur.hadToken
  /\ argv.no_update /\ ~argv.force /\ cur.sent /\ ~cur.loaded

\* C10 (as claimed): from an empty fonts_dir, at the end of every run every
\* source's content file and token file both exist or both do not.
C10_CacheFilesPaired ==
  pc \in {"done", "aborted"}
    => \A i \in DOMAIN sources :
         (fs[Filename(sources[i].url)] = Absent)
           <=> (fs[LastmodPath(Filename(sources[i].url))] = Absent)

\* C11 (as claimed): when cache deletion is requested and the conversion of
\* a source completes, after the cleanup neither the content file nor the
\* token file of that source exists, whichever of them existed before, and
\* the run is not stopped.
C11_CleanupRemovesBothFiles ==
  [][(pc = "convert" /\ cur'.conv = "done" /\ opts.delete_cache)
       => (fs'[CurFile] = Absent /\ fs'[CurLastmod] = Absent /\ pc' # "aborted")]_vars

\* C12: when the glyph-building tool exits non-zero for a source the run
\* aborts there: the step leaves the cache files as they were (no cleanup),
\* and nothing follows in that run but the exit of the process, so no later
\* source is fetched, written to the cache or converted.
C12_ToolFailureAbortsRun ==
  [][/\ (pc = "convert" /\ cur'.exit = "fail")
          => (pc' = "aborted" /\ idx' = idx /\ fs' = fs /\ ~cur'.deleted)
     /\ pc = "aborted"
          => (pc' = "idle" /\ fs' = fs)]_vars
C12_Witness ==
  /\ pc = "aborted" /\ cur.exit = "fail" /\ opts.delete_cache
  /\ idx < Len(sources) /\ fs[CurFile] # Absent /\ fs[CurLastmod] # Absent

\* Some file of source i's cache entry is changed by the step.
CacheChanged(i) == \E p \in CacheFiles(i) : fs'[p] # fs[p]

\* C13 (as claimed): a source's cache entry changes in a run only by being
\* written after a fresh fetch of that source, or by being deleted after
\* that source's completed conversion when cache deletion was requested.
C13_CacheChangesOnlyByOwnFetchOrCleanup ==
  [][\A i \in DOMAIN sources :
       CacheChanged(i)
         => /\ idx = i
            /\ \/ pc = "download" /\ cur'.outcome = "fresh"
               \/ pc = "convert" /\ cur'.conv = "done" /\ opts.delete_cache]_vars

\* C16 (as claimed): processing one source never overwrites or deletes a
\* file of the cache entry of another source, whatever the two URLs are.
C16_SourcesHaveSeparateCaches ==
  [][\A j \in DOMAIN sources :
       (pc \in {"download", "convert"} /\ j # idx /\ sources[j].name # sources[idx].name)
         => ~CacheChanged(j)]_vars

\* C14 (as claimed): download writes no persistent state: the content file
\* and the token file are the same before and after the call.
C14_DownloadWritesNothing ==
  [][pc = "download" => fs' = fs]_vars

\* C14 (amended): download of get-fonts.py writes the cache itself, and only
\* when the outcome is "fresh": then the content file holds the fetched
\* bytes, the token file exists and no other file is changed; for every
\* other outcome fonts_dir is the same before and after the call.
C14_DownloadWritesOnlyWhenFresh ==
  [][pc = "download"
       => IF cur'.outcome = "fresh"
            THEN /\ fs'[CurFile] = cur'.data
                 /\ fs'[CurLastmod] # Absent
                 /\ \A p \in Paths \ {CurFile, CurLastmod} : fs'[p] = fs[p]
            ELSE fs' = fs]_vars
C14_Witness ==
  /\ pc = "convert" /\ cur.outcome = "fresh" /\ cur.loaded
  /\ fs[CurFile] = cur.data /\ fs[CurLastmod].kind = "now"

\* C15: a run given both the force flag and the skip-network flag works with
\* the options of a run given the force flag alone, which are all that
\* download and the conversion step read: so it calls the transport for
\* every source, also with a cache entry present, without a conditional
\* token, and never skips the conversion.
C15_ForceOverridesNoUpdate ==
  (pc # "idle" /\ argv.force /\ argv.no_update)
    => /\ opts = ParseArgs(TRUE, FALSE, argv.delete_cache)
       /\ Downloaded => (cur.sent /\ cur.token = NoneVal)
       /\ cur.conv # "pending" => (cur.tool /\ ~cur.notreq)
C15_Witness ==
  /\ argv.force /\ argv.no_update
  /\ cur.hadContent /\ cur.hadToken /\ cur.sent /\ cur.conv = "done"

\* ------------------------------------------------ scripts/get-fonts copy.py
\* Downloader._download of the copy (lines 34-49): the same code but for its
\* logging.
Copy_Downloader_download(url, headers, net) ==
  IF url.scheme = "file" THEN
    IF net = "missing" THEN Raised
    ELSE IF headers.has /\ StrMtime(src[url]) = headers.ims
      THEN DownloadResult(codes_not_modified, NoneVal, NoneVal)
      ELSE DownloadResult(codes_ok, Bytes(url, src[url]), StrMtime(src[url]))
  ELSE
    IF net \in {"conn_error", "http_error"} THEN Raised
    ELSE IF net = "other_status"
      THEN DownloadResult(CHOOSE s \in OtherStatuses : TRUE, NoBytes, NoneVal)
      ELSE IF ServerStatus(ConditionalToken(headers), src[url]) = codes_not_modified
        THEN DownloadResult(codes_not_modified, NoBytes, HttpDate(src[url]))
        ELSE DownloadResult(codes_ok, Bytes(url, src[url]), HttpDate(src[url]))

\* Downloader.download of the copy (lines 51-93) on the current fonts_dir:
\* whether it calls the transport, the conditional token it sends, what it
\* returns and the files it leaves.  It has no flags; result is assigned and
\* never returned, so the call yields None unless an exception leaves it.
Copy_download(url, net) ==
  LET filename == Filename(url)
      filename_lastmod == LastmodPath(filename)
      cached == fs[filename] # Absent /\ fs[filename_lastmod] # Absent
      lastmod_cache == IF cached THEN fs[filename_lastmod] ELSE NoneVal
      headers == IfModifiedSince(lastmod_cache)
      response == Copy_Downloader_download(url, headers, net)
  IN  [sent |-> ~cached,
       token |-> IF cached THEN NoneVal ELSE ConditionalToken(headers),
       returned |-> IF ~cached /\ response.raised THEN Raised ELSE NoneResult,
       files |-> fs]

\* C17 (as claimed): with default flags, download of get-fonts.py and
\* download of the copy decide alike whether to call the transport and with
\* which conditional token, return the same result and leave the same files.
C17_CopyIsSameDownloader ==
  [][(pc = "download" /\ argv = NoFlags)
       => LET copy == Copy_download(CurUrl, cur'.net)
          IN  /\ copy.sent = cur'.sent
              /\ copy.token = cur'.token
              /\ copy.returned = download'
              /\ copy.files = fs']_vars

====
